---- MODULE Spec2Model ----
(***************************************************************************)
(* pngme: the Chunk codec of src/src/chunk.rs.                             *)
(*                                                                         *)
(* A Chunk is a newtype over Vec<u8>: [length:4][chunk_type:4][data][crc:4].*)
(* Chunk::new builds the vector from a ChunkType and a payload,            *)
(* Chunk::try_from accepts a byte slice whose trailing CRC matches, and    *)
(* the accessors re-derive every field from the stored bytes.              *)
(*                                                                         *)
(* Number representation.  TLC's integers are 32-bit signed, so a u32 is   *)
(* the pair <<hi, lo>> of its 16-bit halves and a usize (64 bits) the      *)
(* tuple of its four 16-bit limbs, most significant first.  A byte is a    *)
(* number in 0..255, a Vec<u8> or &[u8] a sequence of bytes.               *)
(***************************************************************************)
EXTENDS Integers, Sequences, FiniteSets, TLC

VARIABLES
    chunk,      \* the Chunk the last constructor call returned, or NoChunk
    made,       \* "none" | "new" | "try_from": the constructor that ran last
    arg_type,   \* Chunk::new's chunk_type argument
    arg_data,   \* Chunk::new's data argument
    dataLen,    \* data.len() of the last Chunk::new call, a usize
    lenField,   \* data_length of the last Chunk::new call, a u32
    value,      \* the slice last given to Chunk::try_from
    outcome,    \* "none" | "Ok" | "Err" | "panic": how that try_from ended
    reparsed,   \* Chunk::try_from(chunk.as_bytes().as_ref()), once taken
    ret         \* the last accessor call and what it returned

vars == <<chunk, made, arg_type, arg_data, dataLen, lenField, value, outcome, reparsed, ret>>

---------------------------------------------------------------------------
(* Bounds of the model.                                                    *)

\* longest payload drawn bytewise for Chunk::new and Chunk::try_from
MaxData == 2

\* longest slice drawn bytewise without regard to its layout; slices of
\* fewer than 8 bytes cannot hold a length, a type and a crc
MaxShort == 7

---------------------------------------------------------------------------
(* Fixed-width integers.                                                   *)

Limb == 2 ^ 16

RECURSIVE xor_bits(_, _, _)
xor_bits(a, b, n) ==
    IF n = 0 THEN 0
    ELSE ((a + b) % 2) + 2 * xor_bits(a \div 2, b \div 2, n - 1)

\* u8 ^ u8, tabulated
xor8 == [a \in 0..255 |-> [b \in 0..255 |-> xor_bits(a, b, 8)]]

\* u16 ^ u16
xor16(a, b) == xor8[a \div 256][b \div 256] * 256 + xor8[a % 256][b % 256]

\* u32 ^ u32
xor32(a, b) == <<xor16(a[1], b[1]), xor16(a[2], b[2])>>

\* u32 >> k, for 0 < k < 16
shr32(a, k) ==
    <<a[1] \div (2 ^ k), (a[2] \div (2 ^ k)) + (a[1] % (2 ^ k)) * (2 ^ (16 - k))>>

\* u32::to_be_bytes
to_be_bytes(u) == <<u[1] \div 256, u[1] % 256, u[2] \div 256, u[2] % 256>>

\* u32::from_be_bytes
from_be_bytes(b) == <<b[1] * 256 + b[2], b[3] * 256 + b[4]>>

\* the usize of a number below 2^31
usize(k) == <<0, 0, k \div Limb, k % Limb>>

\* Vec::len / slice::len, for the vectors the model holds bytewise
len(v) == usize(Len(v))

\* `n as u32` for a usize n: the low 32 bits
as_u32(n) == <<n[3], n[4]>>

\* `u as usize` for a u32 u: zero-extended
as_usize(u) == <<0, 0, u[1], u[2]>>

\* usize + k for a small k (the sum of a widened u32 and 8 cannot overflow 64 bits)
usize_add(n, k) ==
    LET s4 == n[4] + k
        s3 == n[3] + (s4 \div Limb)
        s2 == n[2] + (s3 \div Limb)
        s1 == n[1] + (s2 \div Limb)
    IN  <<s1 % Limb, s2 % Limb, s3 % Limb, s4 % Limb>>

\* usize <= usize
usize_le(m, n) ==
    \/ m = n
    \/ \E i \in 1..4 : m[i] < n[i] /\ \A j \in 1..(i - 1) : m[j] = n[j]

\* the index a usize denotes, when it is within a vector the model holds
usize_index(n) == n[3] * Limb + n[4]

---------------------------------------------------------------------------
(* CRC-32/ISO-HDLC, table driven as the crc crate computes it: reflected   *)
(* polynomial 0xEDB88320, init 0xFFFFFFFF, xorout 0xFFFFFFFF.              *)

CRC_POLY_REFLECTED == <<60856, 33568>>
CRC_INIT == <<65535, 65535>>
CRC_XOROUT == <<65535, 65535>>

RECURSIVE crc32_step(_, _)
crc32_step(c, n) ==
    IF n = 0 THEN c
    ELSE crc32_step(IF c[2] % 2 = 1 THEN xor32(shr32(c, 1), CRC_POLY_REFLECTED)
                    ELSE shr32(c, 1), n - 1)

crc32_table == [i \in 0..255 |-> crc32_step(<<0, i>>, 8)]

crc32_update(c, byte) ==
    xor32(crc32_table[xor8[c[2] % 256][byte]], shr32(c, 8))

\* the register after bytes[lo..hi], starting from c; the range is halved so
\* that long inputs do not nest deeply
RECURSIVE crc32_range(_, _, _, _)
crc32_range(c, bytes, lo, hi) ==
    IF lo > hi THEN c
    ELSE IF lo = hi THEN crc32_update(c, bytes[lo])
    ELSE LET mid == (lo + hi) \div 2
             left == crc32_range(c, bytes, lo, mid)
         IN  IF left[1] >= 0 THEN crc32_range(left, bytes, mid + 1, hi) ELSE left

\* checksum without the final xorout
checksum_no_xorout(bytes) == crc32_range(CRC_INIT, bytes, 1, Len(bytes))

\* Crc::<u32>::checksum
checksum(bytes) == xor32(crc32_range(CRC_INIT, bytes, 1, Len(bytes)), CRC_XOROUT)

---------------------------------------------------------------------------
(* Panics and slices.  A call either returns a value or panics.            *)

Returned(x) == [panic |-> FALSE, val |-> x]
Panicked == [panic |-> TRUE, val |-> <<>>]

\* &v[from..to] with usize bounds: panics unless from <= to <= v.len()
slice(v, from, to) ==
    IF usize_le(from, to) /\ usize_le(to, len(v))
    THEN Returned(SubSeq(v, usize_index(from) + 1, usize_index(to)))
    ELSE Panicked

---------------------------------------------------------------------------
(* UTF-8, as String::from_utf8 validates it and str::as_bytes encodes it.  *)

is_cont(b) == 128 <= b /\ b <= 191

\* the width of the well-formed sequence starting at bytes[i], 0 if none does
utf8_width(bytes, i) ==
    LET b0 == bytes[i]
        has(k) == i + k <= Len(bytes)
        b(k) == bytes[i + k]
    IN  IF b0 <= 127 THEN 1
        ELSE IF 194 <= b0 /\ b0 <= 223
            THEN IF has(1) /\ is_cont(b(1)) THEN 2 ELSE 0
        ELSE IF 224 <= b0 /\ b0 <= 239
            THEN IF /\ has(2)
                    /\ IF b0 = 224 THEN 160 <= b(1) /\ b(1) <= 191
                       ELSE IF b0 = 237 THEN 128 <= b(1) /\ b(1) <= 159
                       ELSE is_cont(b(1))
                    /\ is_cont(b(2))
                 THEN 3 ELSE 0
        ELSE IF 240 <= b0 /\ b0 <= 244
            THEN IF /\ has(3)
                    /\ IF b0 = 240 THEN 144 <= b(1) /\ b(1) <= 191
                       ELSE IF b0 = 244 THEN 128 <= b(1) /\ b(1) <= 143
                       ELSE is_cont(b(1))
                    /\ is_cont(b(2))
                    /\ is_cont(b(3))
                 THEN 4 ELSE 0
        ELSE 0

RECURSIVE utf8_valid_from(_, _)
utf8_valid_from(bytes, i) ==
    IF i > Len(bytes) THEN TRUE
    ELSE LET w == utf8_width(bytes, i)
         IN  w > 0 /\ utf8_valid_from(bytes, i + w)

\* String::from_utf8: the vector becomes the string's buffer when it is valid
from_utf8(bytes) ==
    IF utf8_valid_from(bytes, 1) THEN [is_ok |-> TRUE, string |-> bytes]
    ELSE [is_ok |-> FALSE, string |-> <<>>]

\* the UTF-8 encoding of one char below U+0100
encode_utf8(c) == IF c < 128 THEN <<c>> ELSE <<192 + (c \div 64), 128 + (c % 64)>>

\* str::as_bytes of a string given as its chars
RECURSIVE str_as_bytes(_)
str_as_bytes(s) == IF s = <<>> THEN <<>> ELSE encode_utf8(Head(s)) \o str_as_bytes(Tail(s))

---------------------------------------------------------------------------
(* ChunkType (crate::chunk_type): four bytes.                              *)

\* ChunkType::try_from([u8; 4]): stores the bytes
ChunkType_try_from(bytes) == [is_ok |-> TRUE, chunk_type |-> bytes]

\* ChunkType::bytes
ChunkType_bytes(t) == <<t[1], t[2], t[3], t[4]>>

\* ChunkType's Display: the four bytes as chars
ChunkType_to_string(t) == [i \in 1..4 |-> t[i]]

---------------------------------------------------------------------------
(* Chunk.                                                                  *)

NoChunk == [exists |-> FALSE, bytes |-> <<>>]
Chunk(v) == [exists |-> TRUE, bytes |-> v]

\* line 14: data.len() as u32
data_length(n) == as_u32(n)

\* u32::to_le_bytes
to_le_bytes(u) == <<u[2] % 256, u[2] \div 256, u[1] % 256, u[1] \div 256>>

\* Chunk::new with the CRC taken over the payload alone
Chunk_new_crc_data_only(t, d) ==
    Chunk(to_be_bytes(data_length(len(d)))
          \o str_as_bytes(ChunkType_to_string(t))
          \o d
          \o to_be_bytes(checksum(d)))

\* Chunk::new with the length written little-endian
Chunk_new_le(t, d) ==
    Chunk(to_le_bytes(data_length(len(d)))
          \o str_as_bytes(ChunkType_to_string(t))
          \o d
          \o to_be_bytes(checksum(ChunkType_bytes(t) \o d)))

\* Chunk::new
Chunk_new(t, d) ==
    LET crc_input == ChunkType_bytes(t) \o d
    IN  Chunk(to_be_bytes(data_length(len(d)))
              \o str_as_bytes(ChunkType_to_string(t))
              \o d
              \o to_be_bytes(checksum(crc_input)))

\* Chunk::length
length(self) ==
    LET s == slice(self.bytes, usize(0), usize(4))
    IN  IF s.panic THEN Panicked ELSE Returned(from_be_bytes(s.val))

\* Chunk::chunk_type
chunk_type(self) ==
    LET s == slice(self.bytes, usize(4), usize(8))
    IN  IF s.panic THEN Panicked
        ELSE LET r == ChunkType_try_from(s.val)
             IN  IF r.is_ok THEN Returned(r.chunk_type) ELSE Panicked

\* Chunk::data
data(self) ==
    LET l == length(self)
    IN  IF l.panic THEN Panicked
        ELSE slice(self.bytes, usize(8), usize_add(as_usize(l.val), 8))

\* Chunk::crc
crc(self) ==
    LET l == length(self)
    IN  IF l.panic THEN Panicked
        ELSE LET s == slice(self.bytes, usize(4), usize_add(as_usize(l.val), 8))
             IN  IF s.panic THEN Panicked ELSE Returned(checksum(s.val))

\* Chunk::data_as_string
data_as_string(self) ==
    LET d == data(self)
    IN  IF d.panic THEN Panicked ELSE Returned(from_utf8(d.val))

\* Chunk::as_bytes
as_bytes(self) == [i \in 1..Len(self.bytes) |-> self.bytes[i]]

\* try_from without the CRC comparison
try_from_unchecked(v) ==
    IF Len(v) < 8 THEN [tag |-> "panic", chunk |-> NoChunk]
    ELSE [tag |-> "Ok", chunk |-> Chunk([i \in 1..Len(v) |-> v[i]])]

\* try_from that stores the slice with its length field rewritten to the
\* number of bytes between the type and the crc
try_from_normalised(v) ==
    IF Len(v) < 8 THEN [tag |-> "panic", chunk |-> NoChunk]
    ELSE IF checksum(SubSeq(v, 5, Len(v) - 4)) = from_be_bytes(SubSeq(v, Len(v) - 3, Len(v)))
        THEN [tag |-> "Ok",
              chunk |-> Chunk(to_be_bytes(as_u32(usize(IF Len(v) >= 12 THEN Len(v) - 12 ELSE 0)))
                              \o SubSeq(v, 5, Len(v)))]
        ELSE [tag |-> "Err", chunk |-> NoChunk]

\* try_from with the CRC taken over the whole remainder, length field included
try_from_crc_from_start(v) ==
    IF Len(v) < 8 THEN [tag |-> "panic", chunk |-> NoChunk]
    ELSE IF checksum(SubSeq(v, 1, Len(v) - 4)) = from_be_bytes(SubSeq(v, Len(v) - 3, Len(v)))
        THEN [tag |-> "Ok", chunk |-> Chunk([i \in 1..Len(v) |-> v[i]])]
        ELSE [tag |-> "Err", chunk |-> NoChunk]

\* <Chunk as TryFrom<&[u8]>>::try_from.  value.len() - 4 on a slice of fewer
\* than 4 bytes panics on the subtraction (overflow checks on) or wraps and
\* panics in split_at (overflow checks off); &remainder[4..] panics when the
\* remainder has fewer than 4 bytes.
try_from(v) ==
    IF Len(v) < 4 THEN [tag |-> "panic", chunk |-> NoChunk]
    ELSE LET remainder == SubSeq(v, 1, Len(v) - 4)
             crc_bytes == SubSeq(v, Len(v) - 3, Len(v))
             claimed == from_be_bytes(crc_bytes)
             body == slice(remainder, usize(4), len(remainder))
         IN  IF body.panic THEN [tag |-> "panic", chunk |-> NoChunk]
             ELSE IF checksum(body.val) = claimed
                 THEN [tag |-> "Ok", chunk |-> Chunk([i \in 1..Len(v) |-> v[i]])]
                 ELSE [tag |-> "Err", chunk |-> NoChunk]

---------------------------------------------------------------------------
(* The inputs the operations are run on.                                   *)

RuSt == <<82, 117, 83, 116>>
IEND == <<73, 69, 78, 68>>

\* "This is where your secret message will be!"
Message ==
    <<84, 104, 105, 115, 32, 105, 115, 32, 119, 104, 101, 114, 101, 32,
      121, 111, 117, 114, 32, 115, 101, 99, 114, 101, 116, 32, 109, 101,
      115, 115, 97, 103, 101, 32, 119, 105, 108, 108, 32, 98, 101, 33>>

\* valid chunk types: four ASCII letters
ChunkTypes == {RuSt, IEND}

\* payload bytes: NUL, 'A', and a byte no UTF-8 text holds
DataBytes == {0, 65, 255}

SeqsUpTo(S, n) == UNION {[1..k -> S] : k \in 0..n}

Payloads == SeqsUpTo(DataBytes, MaxData)

\* what lies between the length field and the crc of a slice: a type and a
\* payload, or fewer than four bytes
Regions ==
    {t \o d : t \in ChunkTypes, d \in Payloads} \cup SeqsUpTo(DataBytes, 3)

\* length fields: small ones, right or wrong for the payload, and large ones
LengthFields ==
    {<<0, k>> : k \in 0..(MaxData + 1)} \cup {<<1, 0>>, <<65535, 65535>>}

\* the low bit of a u32 flipped
flip_low(u) == <<u[1], IF u[2] % 2 = 0 THEN u[2] + 1 ELSE u[2] - 1>>

\* trailers: the CRC of the region, that CRC off by one, zero, and the CRC
\* taken over the length field as well
Trailers(h, r) ==
    {checksum(r), flip_low(checksum(r)), <<0, 0>>, checksum(to_be_bytes(h) \o r)}

Framed(h, r, c) == to_be_bytes(h) \o r \o to_be_bytes(c)

\* the slices of test_valid_chunk_from_bytes and test_invalid_chunk_from_bytes
TestSlices ==
    {Framed(<<0, 42>>, RuSt \o Message, c) : c \in {<<43985, 55374>>, <<43985, 55373>>}}

Slices ==
    UNION {{Framed(h, r, c) : c \in Trailers(h, r)} : h \in LengthFields, r \in Regions}
        \cup TestSlices
        \cup SeqsUpTo({0, 1}, MaxShort)

---------------------------------------------------------------------------
(* State machine.                                                          *)

NotTaken == [taken |-> FALSE, res |-> [tag |-> "none", chunk |-> NoChunk]]
NoCall == [call |-> "none", res |-> Returned(<<>>)]

Init ==
    /\ chunk = NoChunk
    /\ made = "none"
    /\ arg_type = <<>>
    /\ arg_data = <<>>
    /\ dataLen = usize(0)
    /\ lenField = <<0, 0>>
    /\ value = <<>>
    /\ outcome = "none"
    /\ reparsed = NotTaken
    /\ ret = NoCall

\* let chunk = Chunk::new(t, d);
New(t, d) ==
    /\ made = "none"
    /\ chunk' = Chunk_new(t, d)
    /\ made' = "new"
    /\ arg_type' = t
    /\ arg_data' = d
    /\ dataLen' = len(d)
    /\ lenField' = data_length(len(d))
    /\ value' = <<>>
    /\ outcome' = "none"
    /\ reparsed' = NotTaken
    /\ ret' = NoCall

\* let chunk = Chunk::try_from(v);
TryFrom(v) ==
    LET r == try_from(v)
    IN  /\ made = "none"
        /\ chunk' = r.chunk
        /\ made' = "try_from"
        /\ value' = v
        /\ outcome' = r.tag
        /\ arg_type' = <<>>
        /\ arg_data' = <<>>
        /\ dataLen' = usize(0)
        /\ lenField' = <<0, 0>>
        /\ reparsed' = NotTaken
        /\ ret' = NoCall

\* Chunk::try_from(chunk.as_bytes().as_ref())
RoundTrip ==
    /\ chunk.exists
    /\ ~reparsed.taken
    /\ reparsed' = [taken |-> TRUE, res |-> try_from(as_bytes(chunk))]
    /\ UNCHANGED <<chunk, made, arg_type, arg_data, dataLen, lenField, value, outcome, ret>>

\* an accessor call on the chunk: every accessor takes &self
Call(name, result) ==
    /\ chunk.exists
    /\ ret' = [call |-> name, res |-> result]
    /\ UNCHANGED <<chunk, made, arg_type, arg_data, dataLen, lenField, value, outcome, reparsed>>

\* the binding goes out of scope: the chunk, or the error, is dropped
Drop ==
    /\ made # "none"
    /\ chunk' = NoChunk
    /\ made' = "none"
    /\ arg_type' = <<>>
    /\ arg_data' = <<>>
    /\ dataLen' = usize(0)
    /\ lenField' = <<0, 0>>
    /\ value' = <<>>
    /\ outcome' = "none"
    /\ reparsed' = NotTaken
    /\ ret' = NoCall

CallLength == Call("length", length(chunk))
CallChunkType == Call("chunk_type", chunk_type(chunk))
CallData == Call("data", data(chunk))
CallCrc == Call("crc", crc(chunk))
CallDataAsString == Call("data_as_string", data_as_string(chunk))
CallAsBytes == Call("as_bytes", Returned(as_bytes(chunk)))

Next ==
    \/ \E t \in ChunkTypes, d \in Payloads \cup {Message} : New(t, d)
    \/ \E v \in Slices : TryFrom(v)
    \/ RoundTrip
    \/ CallLength
    \/ CallChunkType
    \/ CallData
    \/ CallCrc
    \/ CallDataAsString
    \/ CallAsBytes
    \/ Drop

Spec == Init /\ [][Next]_vars

---------------------------------------------------------------------------
(* Chunk::new on payloads of any length.  A payload of 2^32 bytes or more  *)
(* cannot be held bytewise, so here a payload is known by its length       *)
(* alone, and of the vector Chunk::new builds only the length field is     *)
(* kept (lenField); chunk holds no bytes.  A Vec holds at most isize::MAX  *)
(* bytes, so the top limb stays below 2^15.                                *)

PayloadLengths ==
    {<<a, b, c, d>> : a \in {0, 1, 32767}, b \in {0, 1, 65535}, c \in {0, 1, 65535},
                      d \in (0..MaxData) \cup {65534, 65535}}

\* let chunk = Chunk::new(t, d); with d.len() = n
NewOfLength(n) ==
    /\ made = "none"
    /\ made' = "new"
    /\ dataLen' = n
    /\ lenField' = data_length(n)
    /\ UNCHANGED <<chunk, arg_type, arg_data, value, outcome, reparsed, ret>>

NextLen ==
    \/ \E n \in PayloadLengths : NewOfLength(n)
    \/ Drop

LenSpec == Init /\ [][NextLen]_vars

---------------------------------------------------------------------------
(* Properties.                                                              *)

\* the bytes of a slice after its first four
after_length(v) == SubSeq(v, 5, Len(v))

\* the big-endian u32 in the last four bytes of a slice
trailing_u32(v) == from_be_bytes(SubSeq(v, Len(v) - 3, Len(v)))

\* C1: round trip.  Parsing the bytes of a chunk that Chunk::new built
\* succeeds, and the parsed chunk reports the same length(), chunk_type(),
\* data() and crc() as the built one, none of the calls panicking.
C1_RoundTrip ==
    (made = "new" /\ reparsed.taken) =>
        /\ reparsed.res.tag = "Ok"
        /\ LET p == reparsed.res.chunk
           IN  /\ ~length(p).panic /\ length(p) = length(chunk)
               /\ ~chunk_type(p).panic /\ chunk_type(p) = chunk_type(chunk)
               /\ ~data(p).panic /\ data(p) = data(chunk)
               /\ ~crc(p).panic /\ crc(p) = crc(chunk)

C1_Witness ==
    /\ made = "new"
    /\ reparsed.taken
    /\ reparsed.res.tag = "Ok"
    /\ Len(arg_data) = MaxData
    /\ data(reparsed.res.chunk) = Returned(arg_data)

\* C2: a slice of at least 12 bytes whose trailing big-endian u32 differs from
\* the CRC-32 of the bytes from offset 4 up to the trailer is rejected with an
\* error, and no Chunk is constructed.
C2_CrcMismatchRejected ==
    (/\ made = "try_from"
     /\ Len(value) >= 12
     /\ trailing_u32(value) # checksum(SubSeq(value, 5, Len(value) - 4)))
        => (outcome = "Err" /\ ~chunk.exists)

C2_Witness ==
    /\ made = "try_from"
    /\ Len(value) >= 12
    /\ trailing_u32(value) = flip_low(checksum(SubSeq(value, 5, Len(value) - 4)))
    /\ outcome = "Err"

\* C3: every Chunk that exists has length() == data().len() ==
\* as_bytes().len() - 12, the calls returning without a panic.
C3_LengthConsistent ==
    chunk.exists =>
        LET l == length(chunk)
            d == data(chunk)
        IN  /\ ~l.panic
            /\ ~d.panic
            /\ as_usize(l.val) = len(d.val)
            /\ Len(d.val) = Len(as_bytes(chunk)) - 12

\* C4: whenever Chunk::new returns a chunk, its length field equals d.len();
\* a payload longer than u32::MAX is rejected, never stored truncated.
C4_LengthStoredOrRejected ==
    made = "new" => as_usize(lenField) = dataLen

\* C5: Chunk::try_from ends with Ok or Err on every slice; it never panics.
C5_TryFromTotal ==
    made = "try_from" => outcome \in {"Ok", "Err"}

\* C6 as stated: Chunk::new("RuSt", message) has length() 44 and crc()
\* 2882656334 (0xABD1D84E).
C6_RuStMessage44 ==
    (made = "new" /\ arg_type = RuSt /\ arg_data = Message) =>
        /\ length(chunk) = Returned(<<0, 44>>)
        /\ crc(chunk) = Returned(<<43985, 55374>>)

\* C6 as amended: Chunk::new("RuSt", message) has length() 42 and crc()
\* 2882656334 (0xABD1D84E).
C6_RuStMessage42 ==
    (made = "new" /\ arg_type = RuSt /\ arg_data = Message) =>
        /\ length(chunk) = Returned(<<0, 42>>)
        /\ crc(chunk) = Returned(<<43985, 55374>>)

C6_Witness ==
    /\ made = "new"
    /\ arg_type = RuSt
    /\ arg_data = Message
    /\ ret = [call |-> "crc", res |-> Returned(<<43985, 55374>>)]

\* C7: Chunk::new(t, d).as_bytes() is 12 + N bytes: N big-endian in four bytes,
\* the four bytes of t, the N bytes of d in order, and CRC-32(t ++ d)
\* big-endian in four bytes.
C7_Layout ==
    made = "new" =>
        LET b == as_bytes(chunk)
            n == Len(arg_data)
        IN  /\ Len(b) = 12 + n
            /\ from_be_bytes(SubSeq(b, 1, 4)) = <<0, n>>
            /\ SubSeq(b, 5, 8) = arg_type
            /\ SubSeq(b, 9, 8 + n) = arg_data
            /\ from_be_bytes(SubSeq(b, 9 + n, 12 + n)) = checksum(arg_type \o arg_data)

C7_Witness ==
    /\ made = "new"
    /\ Len(arg_data) = MaxData
    /\ ret.call = "as_bytes"
    /\ Len(ret.res.val) = 12 + MaxData

\* C8: for every Chunk that exists, crc() returns without a panic, equals the
\* big-endian u32 in the last four bytes of as_bytes(), and equals the CRC-32
\* of the type bytes followed by data().
C8_CrcConsistent ==
    chunk.exists =>
        LET c == crc(chunk)
            t == chunk_type(chunk)
            d == data(chunk)
        IN  /\ ~c.panic
            /\ c.val = trailing_u32(as_bytes(chunk))
            /\ ~t.panic
            /\ ~d.panic
            /\ c.val = checksum(ChunkType_bytes(t.val) \o d.val)

\* C9: a chunk that try_from accepted holds the accepted slice byte for byte,
\* and as_bytes() returns exactly that slice, also after accessor calls and a
\* re-parse of its bytes.
C9_ByteExact ==
    (made = "try_from" /\ chunk.exists) =>
        /\ outcome = "Ok"
        /\ as_bytes(chunk) = value
        /\ (ret.call = "as_bytes" => ret.res = Returned(value))

C9_Witness ==
    /\ made = "try_from"
    /\ chunk.exists
    /\ Len(value) >= 12
    /\ as_usize(from_be_bytes(SubSeq(value, 1, 4))) # usize(Len(value) - 12)
    /\ reparsed.taken
    /\ ret = [call |-> "as_bytes", res |-> Returned(value)]

\* C10: for a slice of at least 12 bytes, replacing the leading four bytes by
\* any other length field does not change whether try_from accepts it.
C10_LengthFieldIgnored ==
    (made = "try_from" /\ Len(value) >= 12) =>
        \A h \in LengthFields :
            (try_from(to_be_bytes(h) \o after_length(value)).tag = "Ok") <=> (outcome = "Ok")

C10_Witness ==
    /\ made = "try_from"
    /\ Len(value) >= 12
    /\ outcome = "Ok"
    /\ \E h \in LengthFields :
        /\ to_be_bytes(h) # SubSeq(value, 1, 4)
        /\ try_from(to_be_bytes(h) \o after_length(value)).tag = "Ok"

====
